---- MODULE Spec2Model ----
(***************************************************************************)
(* Model of nucleosynthesis.py: a population-dynamics simulation over a    *)
(* 6 x 7 nuclide grid (Z = 0..5, N = 0..6) with fusion and decay.          *)
(*                                                                         *)
(* The script is one sequential process.  Its position is pc:              *)
(*   "step"    at the head of `for t in range(Nt)`                         *)
(*   "atom"    at the head of `for i in range(np.shape(ii)[1])`            *)
(*   "fusion"  at the head of `for j in range(len(ii))`; once j reaches    *)
(*             len(ii) the decay code of atom1 is next                     *)
(*   "complete" after the last time step, "failed" after an IndexError.    *)
(*                                                                         *)
(* Arithmetic.  The script computes in IEEE doubles.  Here populations are *)
(* integers and every rate is a fixed-point number with Unit = 10^4 parts  *)
(* per one; divisions round down.  The update is homogeneous of degree one *)
(* in the populations, so a population unit may stand for any number of    *)
(* atoms (1000 : 1 is the ratio of the script's seed 1e6 : 1000).  Amounts *)
(* smaller than one unit are lost by the rounding.  The factor pi and the  *)
(* factor 1e-12 of the radii cancel between the cross-section and onedArea.*)
(***************************************************************************)
EXTENDS Integers, Sequences, FiniteSets

VARIABLES pc, t, pop, ii, i, j, atom1, atom2, prod, diff

vars == <<pc, t, pop, ii, i, j, atom1, atom2, prod, diff>>

\* Number of timesteps (1000 in the script; bounded here).
Nt == 2

\* The grid: pop = np.zeros([Nt+1,6,7]).
NZ == 6
NN == 7
ZRange == 0 .. (NZ - 1)
NRange == 0 .. (NN - 1)
Cells == ZRange \X NRange

\* Fixed-point scale of the rates.
Unit == 10^4

\* math.inf
INF == -1

\* Rules : 0 = stable, 1 = beta+, 2 = beta-, 3 = proton, 4 = neutron, 5 = alpha
Stable == 0
BetaPlus == 1
BetaMinus == 2
ProtonEmission == 3
NeutronEmission == 4
AlphaDecay == 5

\* Rules[Z,N] is Rules[Z+1][N+1] here (tuples are indexed from 1).
Rules ==
  << <<0,0,2,4,4,4,4>>,
     <<1,0,0,4,2,4,2>>,
     <<3,3,3,0,0,2,2>>,
     <<3,3,3,1,5,0,2>>,
     <<3,3,3,1,3,0,0>>,
     <<3,3,3,1,1,1,0>> >>

\* Radius, in picometres: the same value for every N of a row.
Radius == <<53, 31, 167, 112, 87, 67>>

\* Thalf after `Thalf = 1/Thalf`, per time step (STEP = 119 ms), in 1/Unit:
\*   math.inf -> 0,  0 -> INF,  x -> Unit * 119 ms / x rounded.
\*   806.7 ms -> 1475   119 ms -> 10000   839 ms -> 1418   178.3 ms -> 6674
\*   770 ms   -> 1545   126.5 ms -> 9407  19.2 s -> 62     20 min   -> 1
\*   12.3 years, 532 days, 1.5e6 years -> 0 (below 1/Unit).
Thalf ==
  << <<0,   0,   0,   INF,  INF,  INF, INF>>,
     <<INF, 0,   0,   INF,  1475, INF, 10000>>,
     <<INF, INF, INF, 0,    0,    1418, 6674>>,
     <<INF, INF, INF, 0,    INF,  0,   0>>,
     <<INF, INF, INF, INF,  1545, INF, 0>>,
     <<INF, INF, INF, 9407, 62,   1,   0>> >>

\* np.log(2), in 1/Unit.
LN2 == 6931

\* Area = 20*np.pi*Radius[5][0]**2, without the factor pi (picometres squared).
Area == 20 * Radius[6] * Radius[6]

RuleOf(a) == Rules[a[1] + 1][a[2] + 1]
RadiusOf(a) == Radius[a[1] + 1]
ThalfOf(a) == Thalf[a[1] + 1][a[2] + 1]

Min(a, b) == IF a <= b THEN a ELSE b

InGrid(a) == a[1] \in ZRange /\ a[2] \in NRange

\* decay_product with the two beta rules exchanged.
decay_product_BetaSwapped(Z, N) ==
  LET rule == Rules[Z + 1][N + 1] IN
  CASE rule = 0 -> <<Z, N>>
    [] rule = 1 -> <<Z + 1, N - 1>>
    [] rule = 2 -> <<Z - 1, N + 1>>
    [] rule = 3 -> <<Z - 1, N>>
    [] rule = 4 -> <<Z, N - 1>>
    [] rule = 5 -> <<Z - 2, N - 2>>

\* decay_product(Z,N)
decay_product(Z, N) ==
  LET rule == Rules[Z + 1][N + 1] IN
  CASE rule = 0 -> <<Z, N>>
    [] rule = 1 -> <<Z - 1, N + 1>>
    [] rule = 2 -> <<Z + 1, N - 1>>
    [] rule = 3 -> <<Z - 1, N>>
    [] rule = 4 -> <<Z, N - 1>>
    [] rule = 5 -> <<Z - 2, N - 2>>

\* fusion_product with the proton bound off by one (>= for >).
fusion_product_OffByOne(a1, a2) ==
  IF a1[1] + a2[1] + 1 >= 5 THEN a1
  ELSE IF a1[2] + a2[2] > 6 THEN a1
  ELSE <<a1[1] + a2[1] + 1, a1[2] + a2[2]>>

\* fusion_product(atom1,atom2)
fusion_product(a1, a2) ==
  IF a1[1] + a2[1] + 1 > 5 THEN a1
  ELSE IF a1[2] + a2[2] > 6 THEN a1
  ELSE <<a1[1] + a2[1] + 1, a1[2] + a2[2]>>

\* A row of zeros, and the history np.zeros([Nt+1,6,7]).
ZeroRow == [Z \in ZRange |-> [N \in NRange |-> 0]]

\* The cells in the row-major order np.where reports them.
AllCells == [k \in 1 .. (NZ * NN) |-> <<(k - 1) \div NN, (k - 1) % NN>>]

\* The place of a cell in that order, from 0.
CellIndex(c) == c[1] * NN + c[2]

\* np.where(row != 0), as the sequence of (ii[0][k], ii[1][k]).
Where(row) == SelectSeq(AllCells, LAMBDA c : row[c[1]][c[2]] # 0)

\* numpy indexing: a negative index counts from the end, an index outside
\* -size .. size-1 raises IndexError.
NpOk(k, size) == k >= -size /\ k < size
NpIdx(k, size) == IF k < 0 THEN k + size ELSE k
CellOk(c) == NpOk(c[1], NZ) /\ NpOk(c[2], NN)

\* pop[s, c[0], c[1]]
At(p, s, c) == p[s][NpIdx(c[1], NZ)][NpIdx(c[2], NN)]

\* pop[s, c[0], c[1]] += d
Add(p, s, c, d) == [p EXCEPT ![s][NpIdx(c[1], NZ)][NpIdx(c[2], NN)] = @ + d]

\* pop[s, c[0], c[1]] = v
Put(p, s, c, v) == [p EXCEPT ![s][NpIdx(c[1], NZ)][NpIdx(c[2], NN)] = v]

\* diff of the fusion of a1 with a2 at step s:
\* min(pop[t,a1],pop[t,a2]) * pi*(Radius[a1]+Radius[a2])**2 * onedArea
FusionDiff(p, s, a1, a2) ==
  (Min(At(p, s, a1), At(p, s, a2)) * (RadiusOf(a1) + RadiusOf(a2)) * (RadiusOf(a1) + RadiusOf(a2)))
     \div Area

\* The three updates of an accepted fusion.
FusionUpdate(p, s, a1, a2, pr, d) ==
  Add(Add(Add(p, s + 1, pr, d \div 2), s + 1, a1, -(d \div 2)), s + 1, a2, -(d \div 2))

\* Thalf[atom1]*np.log(2) > 1.
RateAboveOne(a) == ThalfOf(a) = INF \/ ThalfOf(a) * LN2 > Unit * Unit

\* pop[t,atom1]*Thalf[atom1]*np.log(2), taken only when the rate is not above one.
DecayDiff(p, s, a) == (((At(p, s, a) * ThalfOf(a)) \div Unit) * LN2) \div Unit

\* Complete decay that resets pop[t,atom1] instead of pop[t+1,atom1].
CompleteDecay_ResetsSourceRow(p, s, a1, pr) == Put(Add(p, s + 1, pr, At(p, s, a1)), s, a1, 0)

\* Complete decay: the whole of pop[t,atom1] moves, pop[t+1,atom1] is reset.
CompleteDecay(p, s, a1, pr) == Put(Add(p, s + 1, pr, At(p, s, a1)), s + 1, a1, 0)

\* Partial decay: diff is added to the product and subtracted at [atom1[0], atom2[0]].
PartialDecay(p, s, a1, a2, pr, d) == Add(Add(p, s + 1, pr, d), s + 1, <<a1[1], a2[1]>>, -d)

\* The value of a name the script has not assigned yet.
Unset == <<-1, -1>>

\* Populations a seed nuclide may start with.
SeedPops == {1, 1000}

\* A row with v1 in cell c1 and v2 in cell c2 (one seed when c1 = c2).
SeedRow(c1, v1, c2, v2) ==
  [Z \in ZRange |-> [N \in NRange |->
     IF <<Z, N>> = c1 THEN v1 ELSE IF <<Z, N>> = c2 THEN v2 ELSE 0]]

Init ==
  /\ pc = "step"
  /\ t = 0
  /\ \E c1 \in Cells, c2 \in Cells, v1 \in SeedPops, v2 \in SeedPops :
        /\ c1 = c2 \/ CellIndex(c1) < CellIndex(c2)
        /\ c1 = c2 => v1 = v2
        /\ pop = [s \in 0 .. Nt |-> IF s = 0 THEN SeedRow(c1, v1, c2, v2) ELSE ZeroRow]
  /\ ii = <<>>
  /\ i = 0
  /\ j = 0
  /\ atom1 = Unset
  /\ atom2 = Unset
  /\ prod = Unset
  /\ diff = 0

\* for t in range(Nt): ii = np.where(pop[t] != 0); pop[t+1] = pop[t,:,:]
BeginStep ==
  /\ pc = "step"
  /\ t < Nt
  /\ ii' = Where(pop[t])
  /\ pop' = [pop EXCEPT ![t + 1] = pop[t]]
  /\ i' = 0
  /\ pc' = "atom"
  /\ UNCHANGED <<t, j, atom1, atom2, prod, diff>>

\* for i in range(np.shape(ii)[1]): atom1 = np.array([ii[0][i],ii[1][i]])
NextAtom ==
  /\ pc = "atom"
  /\ i < Len(ii)
  /\ atom1' = ii[i + 1]
  /\ j' = 0
  /\ pc' = "fusion"
  /\ UNCHANGED <<t, pop, ii, i, atom2, prod, diff>>

\* The loop over i is exhausted: the next t.
EndStep ==
  /\ pc = "atom"
  /\ i >= Len(ii)
  /\ t' = t + 1
  /\ pc' = "step"
  /\ UNCHANGED <<pop, ii, i, j, atom1, atom2, prod, diff>>

\* One pass of `for j in range(len(ii))`; ii is the pair of index arrays, so
\* len(ii) is 2.
LenII == 2

FusionPair ==
  /\ pc = "fusion"
  /\ j < LenII
  /\ j + 1 <= Len(ii)
  /\ atom2' = ii[j + 1]
  /\ prod' = fusion_product(atom1, atom2')
  /\ IF prod' = atom1
       THEN UNCHANGED <<pop, diff>>
       ELSE /\ diff' = FusionDiff(pop, t, atom1, atom2')
            /\ pop' = FusionUpdate(pop, t, atom1, atom2', prod', diff')
  /\ j' = j + 1
  /\ UNCHANGED <<pc, t, ii, i, atom1>>

\* ii[0][j] with j beyond the active cells: IndexError ends the script.
FusionIndexError ==
  /\ pc = "fusion"
  /\ j < LenII
  /\ j + 1 > Len(ii)
  /\ pc' = "failed"
  /\ UNCHANGED <<t, pop, ii, i, j, atom1, atom2, prod, diff>>

\* The decay of atom1, after its loop over j.  An index of pop outside the
\* array raises IndexError before anything is written.
Decay ==
  /\ pc = "fusion"
  /\ j >= LenII
  /\ prod' = decay_product(atom1[1], atom1[2])
  /\ diff' = IF RateAboveOne(atom1) THEN diff ELSE DecayDiff(pop, t, atom1)
  /\ pop' = IF ~CellOk(prod') THEN pop
            ELSE IF RateAboveOne(atom1) THEN CompleteDecay(pop, t, atom1, prod')
            ELSE PartialDecay(pop, t, atom1, atom2, prod', diff')
  /\ pc' = IF CellOk(prod') THEN "atom" ELSE "failed"
  /\ i' = IF CellOk(prod') THEN i + 1 ELSE i
  /\ UNCHANGED <<t, ii, j, atom1, atom2>>

\* range(Nt) is exhausted.
Complete ==
  /\ pc = "step"
  /\ t >= Nt
  /\ pc' = "complete"
  /\ UNCHANGED <<t, pop, ii, i, j, atom1, atom2, prod, diff>>

Next ==
  \/ BeginStep
  \/ NextAtom
  \/ EndStep
  \/ FusionPair
  \/ FusionIndexError
  \/ Decay
  \/ Complete

Spec == Init /\ [][Next]_vars

(***************************************************************************)
(* Properties.                                                             *)
(***************************************************************************)

\* The step of a transition: Decay has just acted on atom1.
Decayed == pc = "atom" /\ i >= 1

\* Sum over the cells of a row of population times nucleon number Z + N.
RECURSIVE MassFrom(_, _)
MassFrom(row, k) ==
  IF k > NZ * NN THEN 0
  ELSE row[AllCells[k][1]][AllCells[k][2]] * (AllCells[k][1] + AllCells[k][2])
         + MassFrom(row, k + 1)
Mass(row) == MassFrom(row, 1)

\* The row holds one active cell, and that cell does not fuse with itself.
PureDecayRow(row) ==
  /\ Len(Where(row)) = 1
  /\ fusion_product(Where(row)[1], Where(row)[1]) = Where(row)[1]

\* The row holds one active cell, Stable, that does not fuse with itself.
StableAlone(row) == PureDecayRow(row) /\ RuleOf(Where(row)[1]) = Stable

\* C1: every cell of every row the run has produced (rows 0..t; row t+1 is
\* still being written during step t) is non-negative.
C1_NonNegative ==
  \A s \in 0 .. t : \A c \in Cells : pop[s][c[1]][c[2]] >= 0

\* C2: fusion_product(atom1, atom2) is (Z1+Z2+1, N1+N2) if and only if
\* Z1+Z2+1 <= 5 and N1+N2 <= 6, and atom1 in every other case.
C2_FusionProductContract ==
  (pc = "fusion" /\ j >= 1) =>
     IF atom1[1] + atom2[1] + 1 <= 5 /\ atom1[2] + atom2[2] <= 6
       THEN prod = <<atom1[1] + atom2[1] + 1, atom1[2] + atom2[2]>> /\ prod # atom1
       ELSE prod = atom1

\* C2 witness: the fusion of (5,0) with (5,0) has been computed.
C2_Witness ==
  pc = "fusion" /\ j >= 1 /\ atom1 = <<5, 0>> /\ atom2 = <<5, 0>> /\ prod = <<5, 0>>

\* C3: a time step from a row whose only active cell has no fusion partner
\* completes and leaves the nucleon-weighted mass unchanged.
C3_PureDecayConserves ==
  \A s \in 0 .. (Nt - 1) :
     PureDecayRow(pop[s]) =>
        /\ (s = t => pc # "failed")
        /\ (s < t => Mass(pop[s + 1]) = Mass(pop[s]))

\* C4: from an initial row with all its population in one Stable cell that
\* fuses with nothing, every later row is produced and equals the initial row.
C4_StableEquilibrium ==
  StableAlone(pop[0]) =>
     /\ pc # "failed"
     /\ \A s \in 1 .. t : pop[s] = pop[0]

\* C5: from an initial row with one or two seed nuclides no step fails, and
\* the run is complete only after exactly Nt steps.
C5_RunCompletes ==
  /\ pc # "failed"
  /\ (pc = "complete" => t = Nt)

C7_DecayClosed ==
  /\ \A c \in Cells : InGrid(decay_product(c[1], c[2]))
  /\ (Decayed => InGrid(prod))
  /\ (pc = "failed" => j < LenII)

\* C7 witness: the alpha decay of (3,4) has produced (1,2).
C7_Witness ==
  Decayed /\ atom1 = <<3, 4>> /\ RuleOf(atom1) = AlphaDecay /\ prod = <<1, 2>>

\* C8: when the fusion pass of atom1 has ended, every active cell has been
\* tried as atom2, whatever the number of active cells.
C8_AllPairsTried ==
  Decayed => j = Len(ii)

\* C9: in the partial-decay branch the amount added to the decay product is
\* subtracted from atom1's own cell of row t+1, and from no other cell.
C9_PartialDecayDebitsSource ==
  [][(pc = "fusion" /\ pc' = "atom" /\ ~RateAboveOne(atom1)) =>
        pop' = Add(Add(pop, t + 1, prod', diff'), t + 1, atom1, -diff')]_vars

\* C10: a Stable cell holds inverted half-life 0, so the decay of an active
\* Stable cell never takes the complete-decay branch and changes no population.
C10_StableNeverDecays ==
  [][(pc = "fusion" /\ pc' = "atom" /\ RuleOf(atom1) = Stable) =>
        (ThalfOf(atom1) = 0 /\ ~RateAboveOne(atom1) /\ pop' = pop)]_vars

====
